---- MODULE Spec2Model ----
(***************************************************************************)
(* A model of vardbg's video frame renderer,                               *)
(* src/vardbg/output/video_writer/renderer.py (class FrameRenderer).       *)
(*                                                                         *)
(* Optional values (Python None) are sequences of length 0 or 1: <<>> is   *)
(* None and <<v>> is the value v.  Python floats are exact rationals: a    *)
(* numerator over a positive denominator, with Python's round() (ties go   *)
(* to the even integer) and int() (truncation) computed on them.  The      *)
(* configured line-height multiplier is counted in quarters and the intro  *)
(* duration in half seconds, so every float of the model is a dyadic       *)
(* multiple the code computes without rounding error.                      *)
(***************************************************************************)
EXTENDS Integers, Sequences, FiniteSets, TLC

VARIABLES
    pc,              \* "init", "ready", "failed" (constructor raised), "crashed" (a draw call raised), "closed"
    path,            \* the constructor's path argument, a sequence of characters
    cfg,             \* self.cfg
    err,             \* the exception the constructor raised, if any
    encoder,         \* self.encoder
    log,             \* the calls the encoder received, in order
    frame,           \* self.frame (with self.draw, its drawing context)
    made,            \* how many canvases Image.new has allocated
    sizes_populated, \* self.sizes_populated
    sizes,           \* the geometry fields calc_sizes assigns
    calcs,           \* how many times calc_sizes ran
    last_var,        \* self.last_var_x, self.last_var_y
    ref_var,         \* self.ref_var_x, self.ref_var_y
    caller,          \* the caller's position: "idle" (no frame open) or "open"
    steps,           \* how many trace steps the caller has opened with start_frame
    var_state        \* the var_state argument of the latest finish_frame or close

vars == <<pc, path, cfg, err, encoder, log, frame, made, sizes_populated, sizes,
          calcs, last_var, ref_var, caller, steps, var_state>>

(***************************************************************************)
(* Bounds of the model.                                                    *)
(***************************************************************************)
MaxSteps == 2
MaxLog == 4
MaxLines == 8
MaxVals == 2

(***************************************************************************)
(* Python arithmetic.                                                      *)
(***************************************************************************)
Min(a, b) == IF a <= b THEN a ELSE b

Max(a, b) == IF a >= b THEN a ELSE b

Abs(a) == IF a < 0 THEN -a ELSE a

\* Python's round(n / d) for d > 0: to the nearest integer, a tie to the even one.
Round(n, d) ==
    LET q == n \div d
        r == n % d
    IN  IF 2 * r < d THEN q
        ELSE IF 2 * r > d THEN q + 1
        ELSE IF q % 2 = 0 THEN q ELSE q + 1

\* Python's int(n / d) for d > 0: truncation towards zero.
Trunc(n, d) == IF n >= 0 THEN n \div d ELSE -((-n) \div d)

\* Python's floor division n // d for d > 0.
FloorDiv(n, d) == n \div d

\* The indexes Python's seq[start:end] selects from a sequence of n elements.
SliceBound(i, n) == IF i < 0 THEN Max(i + n, 0) ELSE Min(i, n)

Slice(n, start, end) ==
    LET s == SliceBound(start, n)
        e == SliceBound(end, n)
    IN  IF s < e THEN [k \in 1..(e - s) |-> s + k - 1] ELSE <<>>

(***************************************************************************)
(* The output path and its extension: Path(path).suffix.lower()[1:].       *)
(***************************************************************************)
Upper == {"M", "P", "G", "I", "F", "W", "E", "B", "X"}

LowerOf == [ch \in Upper |->
              CASE ch = "M" -> "m" [] ch = "P" -> "p" [] ch = "G" -> "g"
                [] ch = "I" -> "i" [] ch = "F" -> "f" [] ch = "W" -> "w"
                [] ch = "E" -> "e" [] ch = "B" -> "b" [] ch = "X" -> "x"]

\* str.lower()
Lower(s) == [i \in 1..Len(s) |-> IF s[i] \in Upper THEN LowerOf[s[i]] ELSE s[i]]

\* The last index of character ch in s, 0 when there is none (str.rfind plus one).
RFind(s, ch) ==
    LET at == {i \in 1..Len(s) : s[i] = ch}
    IN  IF at = {} THEN 0 ELSE CHOOSE i \in at : \A j \in at : j <= i

\* PurePath.name: the last component of the path.
Name(p) == SubSeq(p, RFind(p, "/") + 1, Len(p))

\* PurePath.suffix: from the name's last dot, unless the dot starts or ends the name.
Suffix(p) ==
    LET name == Name(p)
        i == RFind(name, ".")
    IN  IF 1 < i /\ i < Len(name) THEN SubSeq(name, i, Len(name)) ELSE <<>>

\* s[1:]
Tail1(s) == IF s = <<>> THEN <<>> ELSE Tail(s)

Ext(p) == Tail1(Lower(Suffix(p)))

Paths == {
    <<"a", ".", "m", "p", "4">>,
    <<"a", ".", "M", "P", "4">>,
    <<"a", ".", "g", "i", "f">>,
    <<"a", ".", "W", "e", "b", "p">>,
    <<"a", ".", "X", "y", "z">>,
    <<".", "m", "p", "4">>,
    <<"a", ".", "g", "i", "f", "/", "b">>
}

(***************************************************************************)
(* Configurations.  A configuration holds the values Config reads and the  *)
(* glyph measurements the configured fonts give: glyph_w and glyph_mh are  *)
(* the body font's textsize of "A" and of "`^Ag", cap_h the caption font's *)
(* height, head_h the heading font's.  line_height_q is cfg.line_height in *)
(* quarters and intro_time_h is cfg.intro_time in half seconds.            *)
(***************************************************************************)
BaseCfg == [w |-> 20, h |-> 24, fps |-> 2, var_x |-> 10, out_y |-> 12, ovar_y |-> 5,
            sect_padding |-> 1, head_padding |-> 1, line_height_q |-> 4,
            intro_text |-> "", intro_time_h |-> 0, watermark |-> FALSE,
            glyph_w |-> 2, glyph_mh |-> 2, cap_h |-> 1, head_h |-> 2]

\* The configurations of the frame life cycle: intro and watermark vary.
LifeCfgs ==
    {[BaseCfg EXCEPT !.fps = f, !.intro_text = t, !.intro_time_h = d, !.watermark = m] :
        f \in {1, 2}, t \in {"", "vardbg"}, d \in {0, 1, 2}, m \in BOOLEAN}

\* The configuration of the variable panels: the watermark is on.
VarsCfgs == {[BaseCfg EXCEPT !.watermark = m] : m \in {TRUE}}

\* The configurations of the layout: panel split, padding, glyph width and line height vary.
ViewCfgs ==
    {[BaseCfg EXCEPT !.var_x = x, !.sect_padding = p, !.glyph_w = g, !.out_y = y,
                     !.line_height_q = l] :
        x \in {9, 10}, p \in {0, 1}, g \in {2, 3}, y \in 4..16, l \in {4, 6}}

(***************************************************************************)
(* calc_sizes: the panel geometry.  line_height_q is self.line_height in   *)
(* quarters; body_rows_f is the float self._body_rows, as a fraction.      *)
(***************************************************************************)
\* self.body_cols = round((self.cfg.var_x - self.cfg.sect_padding * 2) / w)
BodyCols(c) == Round(c.var_x - c.sect_padding * 2, c.glyph_w)

calc_sizes(c) ==
    LET hh == c.head_h
        line_height_q == c.glyph_mh * c.line_height_q
        body_rows_f == [num |-> 4 * (c.out_y - c.sect_padding * 2 - c.cap_h),
                        den |-> line_height_q]
        out_y == c.out_y + c.head_padding * 2 + hh
        vars_x == c.var_x + c.sect_padding
        vars_y == c.head_padding * 2 + hh
        vars_cols == FloorDiv(c.w - c.var_x - c.sect_padding * 2, c.glyph_w)
        ovars_h == c.h - c.ovar_y
    IN  [line_height_q |-> line_height_q,
         body_cols |-> BodyCols(c),
         body_rows_f |-> body_rows_f,
         body_rows |-> Trunc(body_rows_f.num, body_rows_f.den),
         out_x |-> c.sect_padding,
         out_y |-> out_y,
         out_cols |-> BodyCols(c),
         out_rows |-> Round(4 * (c.h - out_y), line_height_q),
         vars_x |-> vars_x,
         vars_y |-> vars_y,
         vars_cols |-> vars_cols,
         vars_rows |-> Trunc(4 * (c.ovar_y - c.head_padding * 2 - hh), line_height_q),
         ovars_x |-> vars_x,
         ovars_y |-> c.ovar_y + vars_y,
         ovars_cols |-> vars_cols,
         ovars_rows |-> Trunc(4 * (ovars_h - c.sect_padding * 2), line_height_q)]

(***************************************************************************)
(* draw_code: the window of source lines shown around the current line.    *)
(***************************************************************************)
\* ctx_side_lines = (self._body_rows - 1) / 2, as a fraction over 2 * den
SideNum(rows) == rows.num - rows.den

\* round(cur_idx - ctx_side_lines)
NaiveStart(cur_idx, rows) == Round(cur_idx * 2 * rows.den - SideNum(rows), 2 * rows.den)

\* round(cur_idx + ctx_side_lines)
NaiveEnd(cur_idx, rows) == Round(cur_idx * 2 * rows.den + SideNum(rows), 2 * rows.den)

\* A variant that clips the start without extending the end.
ClampWindowNoShift(start_idx, end_idx) ==
    IF start_idx < 0 THEN <<0, end_idx>> ELSE <<start_idx, end_idx>>

\* if start_idx < 0: end_idx += abs(start_idx); start_idx = 0
ClampWindow(start_idx, end_idx) ==
    IF start_idx < 0 THEN <<0, end_idx + Abs(start_idx)>> ELSE <<start_idx, end_idx>>

\* What draw_code renders of n lines with current line cur_line: the window's bounds
\* and display_lines, each displayed line as its 0-based index and its highlight flag.
CodeWindow(n, cur_line, rows) ==
    LET cur_idx == cur_line - 1
        win == ClampWindow(NaiveStart(cur_idx, rows), NaiveEnd(cur_idx, rows))
        shown == Slice(n, win[1], win[2])
    IN  [n |-> n, cur_idx |-> cur_idx, start_idx |-> win[1], end_idx |-> win[2],
         display_lines |-> [k \in 1..Len(shown) |->
                              [idx |-> shown[k], highlighted |-> shown[k] = cur_idx]]]

(***************************************************************************)
(* Variable states.  A tracked variable of other_history is its name, its  *)
(* values' ignored flag and the number n of its recorded values (at least  *)
(* one); ref is the optional name of the referenced variable.              *)
(***************************************************************************)
VarEntries(name) ==
    {[name |-> name, ignored |-> TRUE, n |-> 1]}
        \cup {[name |-> name, ignored |-> FALSE, n |-> k] : k \in 1..MaxVals}

Histories ==
    {<<>>}
        \cup {<<e>> : e \in VarEntries("x") \cup VarEntries("y")}
        \cup {<<a, b>> : a \in VarEntries("x"), b \in VarEntries("y")}

\* ref, when it is not None, names a variable of other_history.
VarStates ==
    {st \in [ref : {<<>>, <<"x">>, <<"y">>}, other_history : Histories] :
        st.ref # <<>> =>
            \E i \in 1..Len(st.other_history) : <<st.other_history[i].name>> = st.ref}

\* The var_state arguments: None or a variable state.
VarArgs == {<<>>} \cup {<<st>> : st \in VarStates}

\* The var_state arguments of the frame life cycle: None, a state without a
\* reference, and a state referring to x, whose latest value is recorded.
LifeArgs ==
    {<<>>,
     <<[ref |-> <<>>, other_history |-> <<[name |-> "x", ignored |-> FALSE, n |-> 1]>>]>>,
     <<[ref |-> <<"x">>, other_history |-> <<[name |-> "x", ignored |-> FALSE, n |-> MaxVals]>>]>>}

(***************************************************************************)
(* The variable panels.  The painter's writes are recorded as tokens: a    *)
(* separator ("\n\n"), a variable's name, or a bullet with the value's     *)
(* index and whether it was written with reference highlighting.  An       *)
(* anchor is the painter row of the recorded position and the canvas it    *)
(* was recorded on.                                                        *)
(***************************************************************************)
Token(t, var, idx, hl) == [t |-> t, var |-> var, idx |-> idx, hl |-> hl]

\* for v_idx, value in enumerate(values): the bullets of one variable
RECURSIVE DrawValues(_, _, _, _, _)
DrawValues(acc, e, ref, id, v_idx) ==
    IF v_idx >= e.n THEN acc
    ELSE LET hl == (<<e.name>> = ref /\ v_idx = e.n - 1)
             row == acc.row + 1
         IN  DrawValues([out |-> Append(acc.out, Token("bullet", e.name, v_idx, hl)),
                         row |-> row,
                         ref_var |-> IF hl THEN <<[row |-> row, frame |-> id]>>
                                     ELSE acc.ref_var],
                        e, ref, id, v_idx + 1)

\* for idx, (var, values) in enumerate(state.other_history)
RECURSIVE DrawVars(_, _, _, _)
DrawVars(acc, st, id, idx) ==
    IF idx >= Len(st.other_history) THEN acc
    ELSE LET e == st.other_history[idx + 1]
         IN  IF e.ignored THEN DrawVars(acc, st, id, idx + 1)
             ELSE LET sep == IF idx > 0
                             THEN [acc EXCEPT !.out = Append(@, Token("sep", "", 0, FALSE)),
                                              !.row = @ + 2]
                             ELSE acc
                      named == [sep EXCEPT !.out = Append(@, Token("name", e.name, 0, FALSE))]
                  IN  DrawVars(DrawValues(named, e, st.ref, id, 0), st, id, idx + 1)

\* draw_other_vars: the panel's text, and self.ref_var_x/y assigned when a bullet is highlighted
draw_other_vars(R, st) ==
    LET acc == DrawVars([out |-> <<>>, row |-> 0, ref_var |-> R.ref_var], st,
                        R.frame[1].id, 0)
    IN  [R EXCEPT !.frame[1].ovars = acc.out, !.ref_var = acc.ref_var]

\* draw_last_var: name, action (its end is recorded in self.last_var_x/y), value text
draw_last_var(R, st) ==
    [R EXCEPT !.frame[1].var_passes = @ + 1,
              !.last_var = <<[row |-> 0, frame |-> R.frame[1].id]>>]

\* draw_var_ref: the connector between the two recorded positions, with the
\* reference it was drawn for; max() raises TypeError when self.ref_var_x is still None
draw_var_ref(R, st) ==
    IF R.ref_var = <<>> \/ R.last_var = <<>> THEN [R EXCEPT !.pc = "crashed"]
    ELSE [R EXCEPT !.frame[1].connector =
                      <<[src |-> R.last_var[1], dst |-> R.ref_var[1], ref |-> st.ref]>>]

draw_variables(R, st) ==
    LET R1 == draw_last_var(draw_other_vars(R, st), st)
    IN  IF st.ref # <<>> THEN draw_var_ref(R1, st) ELSE R1

draw_watermark(R) == [R EXCEPT !.frame[1].watermarks = @ + 1]

(***************************************************************************)
(* The renderer.  R is the renderer object: a record of the fields the     *)
(* methods read and assign; c is its configuration.                        *)
(***************************************************************************)
Self == [pc |-> pc, err |-> err, encoder |-> encoder, log |-> log, frame |-> frame,
         made |-> made, sizes_populated |-> sizes_populated, sizes |-> sizes,
         calcs |-> calcs, last_var |-> last_var, ref_var |-> ref_var]

\* The renderer becomes R.
Becomes(R) ==
    /\ pc' = R.pc
    /\ err' = R.err
    /\ encoder' = R.encoder
    /\ log' = R.log
    /\ frame' = R.frame
    /\ made' = R.made
    /\ sizes_populated' = R.sizes_populated
    /\ sizes' = R.sizes
    /\ calcs' = R.calcs
    /\ last_var' = R.last_var
    /\ ref_var' = R.ref_var

\* The renderer is R.
Is(R) ==
    /\ pc = R.pc
    /\ err = R.err
    /\ encoder = R.encoder
    /\ log = R.log
    /\ frame = R.frame
    /\ made = R.made
    /\ sizes_populated = R.sizes_populated
    /\ sizes = R.sizes
    /\ calcs = R.calcs
    /\ last_var = R.last_var
    /\ ref_var = R.ref_var

\* Before __init__ has assigned anything.
Blank == [pc |-> "init", err |-> <<>>, encoder |-> <<>>, log |-> <<>>, frame |-> <<>>,
          made |-> 0, sizes_populated |-> FALSE, sizes |-> <<>>, calcs |-> 0,
          last_var |-> <<>>, ref_var |-> <<>>]

\* A variant that takes every unrecognized extension for WebP.
SelectEncoderLenient(ext, p, c) ==
    IF ext = <<"m", "p", "4">>
    THEN <<[kind |-> "OpenCVEncoder", path |-> p, fourcc |-> <<"mp4v">>, fps |-> c.fps,
            size |-> <<[w |-> c.w, h |-> c.h]>>]>>
    ELSE IF ext = <<"g", "i", "f">>
    THEN <<[kind |-> "GIFEncoder", path |-> p, fourcc |-> <<>>, fps |-> c.fps, size |-> <<>>]>>
    ELSE <<[kind |-> "WebPEncoder", path |-> p, fourcc |-> <<>>, fps |-> c.fps, size |-> <<>>]>>

\* The encoder __init__ constructs for an extension; None where it raises ValueError.
SelectEncoder(ext, p, c) ==
    IF ext = <<"m", "p", "4">>
    THEN <<[kind |-> "OpenCVEncoder", path |-> p, fourcc |-> <<"mp4v">>, fps |-> c.fps,
            size |-> <<[w |-> c.w, h |-> c.h]>>]>>
    ELSE IF ext = <<"g", "i", "f">>
    THEN <<[kind |-> "GIFEncoder", path |-> p, fourcc |-> <<>>, fps |-> c.fps, size |-> <<>>]>>
    ELSE IF ext = <<"w", "e", "b", "p">>
    THEN <<[kind |-> "WebPEncoder", path |-> p, fourcc |-> <<>>, fps |-> c.fps, size |-> <<>>]>>
    ELSE <<>>

\* Image.new and ImageDraw.Draw: a fresh canvas with nothing drawn on it
new_frame(R, c) ==
    [R EXCEPT !.made = @ + 1,
              !.frame = <<[id |-> R.made + 1, chrome |-> FALSE, title |-> FALSE,
                           code |-> <<>>, ovars |-> <<>>, var_passes |-> 0,
                           connector |-> <<>>, watermarks |-> 0]>>]

\* A variant that computes the sizes on every frame.
ShouldCalcAlways(populated) == TRUE

\* if not self.sizes_populated
ShouldCalc(populated) == ~populated

start_frame(R, c) ==
    LET R1 == [new_frame(R, c) EXCEPT !.frame[1].chrome = TRUE]
    IN  IF ShouldCalc(R1.sizes_populated)
        THEN [R1 EXCEPT !.sizes = <<calc_sizes(c)>>, !.calcs = @ + 1,
                        !.sizes_populated = TRUE]
        ELSE R1

\* vs is the var_state argument: <<>> for None.  An exception of a draw call
\* leaves the method at once.
finish_frame(R, c, vs) ==
    IF R.frame = <<>> THEN R
    ELSE LET R1 == IF vs # <<>> THEN draw_variables(R, vs[1]) ELSE R
             R2 == IF c.watermark THEN draw_watermark(R1) ELSE R1
         IN  IF R1.pc = "crashed" THEN R1
             ELSE [R2 EXCEPT !.log = Append(@, [op |-> "write", frame |-> R2.frame[1].id])]

\* frames = round(self.cfg.intro_time * self.cfg.fps)
IntroFrames(c) == Round(c.intro_time_h * c.fps, 2)

RECURSIVE IntroLoop(_, _, _)
IntroLoop(R, c, k) ==
    IF k <= 0 THEN R
    ELSE LET R1 == [new_frame(R, c) EXCEPT !.frame[1].title = TRUE]
         IN  IntroLoop(finish_frame(R1, c, <<>>), c, k - 1)

write_intro(R, c) == IntroLoop(R, c, IntroFrames(c))

\* __init__(path, config_path), c being the configuration Config loads
init(p, c) ==
    LET ext == Ext(p)
        enc == SelectEncoder(ext, p, c)
    IN  IF enc = <<>>
        THEN [Blank EXCEPT !.pc = "failed", !.err = <<[type |-> "ValueError", ext |-> ext]>>]
        ELSE LET R == [Blank EXCEPT !.pc = "ready", !.encoder = enc]
             IN  IF c.intro_text # "" /\ c.intro_time_h # 0 THEN write_intro(R, c) ELSE R

close(R, c, vs) ==
    LET R1 == finish_frame(R, c, vs)
    IN  IF R1.pc = "crashed" THEN R1
        ELSE [R1 EXCEPT !.log = Append(@, [op |-> "stop", frame |-> 0]), !.pc = "closed"]

\* draw_code(lines, cur_line) on the open frame, lines being n lines
draw_code(R, n, cur_line) ==
    [R EXCEPT !.frame[1].code = <<CodeWindow(n, cur_line, R.sizes[1].body_rows_f)>>]

(***************************************************************************)
(* The caller's operations.  The caller opens a trace step with            *)
(* start_frame when no step is open, may call finish_frame at any time,    *)
(* and ends the run with close.  It passes a variable state only once a    *)
(* trace frame has been started.                                           *)
(***************************************************************************)
Construct ==
    /\ pc = "init"
    /\ \E p \in Paths :
        /\ path' = p
        /\ Becomes(init(p, cfg))
    /\ UNCHANGED <<cfg, caller, steps, var_state>>

StartFrame ==
    /\ pc = "ready"
    /\ caller = "idle"
    /\ steps < MaxSteps
    /\ Becomes(start_frame(Self, cfg))
    /\ caller' = "open"
    /\ steps' = steps + 1
    /\ UNCHANGED <<path, cfg, var_state>>

DrawCode ==
    /\ pc = "ready"
    /\ caller = "open"
    /\ \E n \in 1..MaxLines : \E cur_line \in 1..n :
        Becomes(draw_code(Self, n, cur_line))
    /\ UNCHANGED <<path, cfg, caller, steps, var_state>>

FinishStep(vs) ==
    /\ pc = "ready"
    /\ Len(log) < MaxLog
    /\ vs # <<>> => sizes_populated
    /\ Becomes(finish_frame(Self, cfg, vs))
    /\ caller' = "idle"
    /\ var_state' = vs
    /\ UNCHANGED <<path, cfg, steps>>

\* finish_frame with a variable state of the life cycle, or none
FinishFrame == \E vs \in LifeArgs : FinishStep(vs)

\* finish_frame with any variable state, or none
FinishFrameVars == \E vs \in VarArgs : FinishStep(vs)

\* finish_frame(None)
FinishFrameNoVars == FinishStep(<<>>)

CloseStep(vs) ==
    /\ pc = "ready"
    /\ vs # <<>> => sizes_populated
    /\ Becomes(close(Self, cfg, vs))
    /\ caller' = "idle"
    /\ var_state' = vs
    /\ UNCHANGED <<path, cfg, steps>>

Close == \E vs \in LifeArgs : CloseStep(vs)

CloseVars == \E vs \in VarArgs : CloseStep(vs)

CloseNoVars == CloseStep(<<>>)

(***************************************************************************)
(* Spec: the frame life cycle, from before construction to close, over     *)
(* every path and every intro and watermark configuration.                 *)
(***************************************************************************)
Init ==
    /\ cfg \in LifeCfgs
    /\ path = <<>>
    /\ Is(Blank)
    /\ caller = "idle"
    /\ steps = 0
    /\ var_state = <<>>

Next == Construct \/ StartFrame \/ FinishFrame \/ Close

Spec == Init /\ [][Next]_vars

(***************************************************************************)
(* SpecView: the layout and the code panel, from a constructed renderer,   *)
(* over every layout configuration.                                        *)
(***************************************************************************)
ViewPath == <<"a", ".", "m", "p", "4">>

InitView ==
    /\ cfg \in ViewCfgs
    /\ path = ViewPath
    /\ Is(init(ViewPath, cfg))
    /\ caller = "idle"
    /\ steps = 0
    /\ var_state = <<>>

NextView == StartFrame \/ DrawCode \/ FinishFrameNoVars \/ CloseNoVars

SpecView == InitView /\ [][NextView]_vars

(***************************************************************************)
(* SpecVars: the variable panels, from a constructed renderer, over every  *)
(* variable state.                                                         *)
(***************************************************************************)
InitVars ==
    /\ cfg \in VarsCfgs
    /\ path = ViewPath
    /\ Is(init(ViewPath, cfg))
    /\ caller = "idle"
    /\ steps = 0
    /\ var_state = <<>>

NextVars == StartFrame \/ FinishFrameVars \/ CloseVars

SpecVars == InitVars /\ [][NextVars]_vars

(***************************************************************************)
(* Properties.                                                             *)
(***************************************************************************)
Writes == {i \in 1..Len(log) : log[i].op = "write"}

Stops == {i \in 1..Len(log) : log[i].op = "stop"}

\* The intro frames the constructor renders.
IntroCount == IF cfg.intro_text # "" /\ cfg.intro_time_h # 0 THEN IntroFrames(cfg) ELSE 0

CodeDrawn == pc = "ready" /\ frame # <<>> /\ sizes # <<>> /\ frame[1].code # <<>>

\* C1: once the run is closed, the encoder has received exactly one write per trace
\* step plus one per intro frame, and exactly one stop, which is its last call.
C1_OneWritePerFrame ==
    pc = "closed" =>
        /\ Cardinality(Writes) = steps + IntroCount
        /\ Cardinality(Stops) = 1
        /\ log[Len(log)].op = "stop"

\* C2: a finish_frame (or the one inside close) made while the caller is idle writes
\* nothing to the encoder and draws nothing, and no canvas is written twice.
C2_FinishWhileIdleIsNoOp ==
    /\ [][(pc = "ready" /\ caller = "idle" /\ caller' = "idle") =>
            (Cardinality(Writes') = Cardinality(Writes) /\ frame' = frame)]_vars
    /\ [](\A i, j \in Writes : log[i].frame = log[j].frame => i = j)

\* C3: the window draw_code displays has exactly min(body_rows, number of lines) lines.
C3_WindowLength ==
    CodeDrawn =>
        Len(frame[1].code[1].display_lines) = Min(sizes[1].body_rows, frame[1].code[1].n)

\* C4: when the file has at least body_rows >= 1 lines, exactly one displayed line
\* carries the current-line highlight.
C4_CurrentLineShown ==
    (CodeDrawn /\ sizes[1].body_rows >= 1 /\ frame[1].code[1].n >= sizes[1].body_rows) =>
        LET shown == frame[1].code[1].display_lines
        IN  Cardinality({k \in 1..Len(shown) : shown[k].highlighted}) = 1

C6_BodyColsIsFloor ==
    (sizes_populated /\ cfg.var_x - 2 * cfg.sect_padding > 0 /\ cfg.glyph_w > 0) =>
        /\ sizes[1].body_cols * cfg.glyph_w <= cfg.var_x - 2 * cfg.sect_padding
        /\ cfg.var_x - 2 * cfg.sect_padding < (sizes[1].body_cols + 1) * cfg.glyph_w

Supported == {<<"m", "p", "4">>, <<"g", "i", "f">>, <<"w", "e", "b", "p">>}

\* C7: construction with an extension other than mp4, gif and webp (lower-cased)
\* fails with an error naming the extension, with no encoder, no canvas and no write;
\* extension mp4 gives the codec-based encoder with the configuration's fps, width
\* and height.
C7_UnsupportedExtension ==
    pc # "init" =>
        /\ Ext(path) \notin Supported =>
            /\ pc = "failed"
            /\ err = <<[type |-> "ValueError", ext |-> Ext(path)]>>
            /\ encoder = <<>> /\ log = <<>> /\ frame = <<>> /\ made = 0
        /\ path = <<"a", ".", "X", "y", "z">> => err = <<[type |-> "ValueError", ext |-> <<"x", "y", "z">>]>>
        /\ path = <<".", "m", "p", "4">> => err = <<[type |-> "ValueError", ext |-> <<>>]>>
        /\ Ext(path) \in Supported => pc # "failed" /\ err = <<>> /\ encoder # <<>>
        /\ path \in {<<"a", ".", "m", "p", "4">>, <<"a", ".", "M", "P", "4">>} =>
            encoder = <<[kind |-> "OpenCVEncoder", path |-> path, fourcc |-> <<"mp4v">>,
                         fps |-> cfg.fps, size |-> <<[w |-> cfg.w, h |-> cfg.h]>>]>>

\* Construction has failed on extension xyz under a configuration that asks for intro frames.
C7_Witness ==
    /\ pc = "failed"
    /\ path = <<"a", ".", "X", "y", "z">>
    /\ cfg.intro_text # "" /\ cfg.intro_time_h = 2 /\ cfg.fps = 2

\* C8: a connector on a canvas was drawn for a non-null ref, from two anchors that
\* were both recorded on that canvas, never on an earlier frame's.
C8_ConnectorUsesFreshAnchors ==
    (frame # <<>> /\ frame[1].connector # <<>>) =>
        LET k == frame[1].connector[1]
        IN  /\ k.ref # <<>>
            /\ k.src.frame = frame[1].id
            /\ k.dst.frame = frame[1].id

\* C9: calc_sizes has run exactly once from the first start_frame on and never before
\* it (intro frames do not run it), and no later operation changes a geometry field.
C9_SizesComputedOnce ==
    /\ [](/\ sizes_populated <=> steps > 0
          /\ calcs = IF steps > 0 THEN 1 ELSE 0
          /\ sizes = IF steps > 0 THEN <<calc_sizes(cfg)>> ELSE <<>>)
    /\ [][sizes_populated => (sizes' = sizes /\ calcs' = calcs /\ sizes_populated')]_vars

\* A second trace step has been opened and the run closed, after intro frames.
C9_Witness == pc = "closed" /\ steps = 2 /\ calcs = 1 /\ IntroCount = 2 /\ made = 4

\* C10: in the other-variables panel an ignored variable has no name and no bullet,
\* the first thing written is not a separator, and every later name directly follows
\* a separator.
C10_SeparatorsBetweenShown ==
    (frame # <<>> /\ frame[1].var_passes > 0 /\ var_state # <<>>) =>
        LET st == var_state[1]
            out == frame[1].ovars
        IN  /\ \A i \in 1..Len(st.other_history) : st.other_history[i].ignored =>
                    \A k \in 1..Len(out) : out[k].var # st.other_history[i].name
            /\ out # <<>> => out[1].t = "name"
            /\ \A k \in 2..Len(out) : out[k].t = "name" => out[k - 1].t = "sep"
            /\ \A k \in 1..Len(out) : out[k].t = "sep" => k < Len(out) /\ out[k + 1].t = "name"

====
